---- MODULE Spec2Model ----
(***************************************************************************)
(* A model of zc.table's fieldcolumn module: the safe-id encoding          *)
(* (isSafe, toSafe, getId), the annotation keys of BaseColumn, the         *)
(* input / update / renderCell protocol of FieldColumn and the submit      *)
(* detection of SubmitColumn.                                              *)
(*                                                                         *)
(* Python strings that the code takes apart (an item's str()) are          *)
(* sequences of one-character strings; strings the code only concatenates  *)
(* and compares (prefixes, widget names, annotation keys) are TLA+         *)
(* strings.  Python values are written as strings: None is "None", True    *)
(* is "True", the empty string is "".                                      *)
(***************************************************************************)
EXTENDS Integers, Sequences, FiniteSets, TLC

VARIABLES
    str,          \* str[item]: the string form str(item) of each row object
    value,        \* value[item]: the attribute of each row of the table that the field reads and writes
    form,         \* form[f]: the request.form of each live formatter f, submitted name -> raw input
    annotations,  \* annotations[f]: formatter f's annotations mapping, key -> value
    column,       \* the attributes of the shared column instance
    updated,      \* history: the formatters on which an update() of the column set a field
    last          \* the call that has not returned yet: its arguments and what it
                  \* returns or raises; [op |-> "idle"] between two calls

vars == <<str, value, form, annotations, column, updated, last>>

-----------------------------------------------------------------------------
(* Bounds *)

\* The longest batch of items handed to one input / update call.
MaxBatch == 2

\* The longest item string form drawn when the id encoding is explored.
MaxLen == 4

-----------------------------------------------------------------------------
(* Python values *)

None == "None"
True == "True"
False == "False"

\* bool(v) for the values of the model.
Truthy(v) == v \notin {None, False, ""}

\* The empty mapping {}.
EmptyMap == [k \in {} |-> None]

\* d[k] = v on a mapping.
MapSet(d, k, v) == [x \in DOMAIN d \cup {k} |-> IF x = k THEN v ELSE d[x]]

\* d.get(k, default).
MapGet(d, k, default) == IF k \in DOMAIN d THEN d[k] ELSE default

Range(s) == {s[i] : i \in DOMAIN s}

\* The sequences of at most n distinct elements of S.
Batches(S, n) ==
    {b \in UNION {[1..k -> S] : k \in 0..n} :
        \A i, j \in DOMAIN b : i # j => b[i] # b[j]}

\* F of the value of e, with e evaluated once.
Strict(e, F(_)) == CHOOSE y \in {F(x) : x \in {e}} : TRUE

\* ''.join(chars): a sequence of characters as one string.
RECURSIVE Join(_)
Join(chars) ==
    IF chars = <<>> THEN "" ELSE Head(chars) \o Join(Tail(chars))

-----------------------------------------------------------------------------
(* isSafe, toSafe, getId *)

\* The base64 alphabet, in the order of its 6-bit values 0..63.
B64Chars ==
    << "A","B","C","D","E","F","G","H","I","J","K","L","M",
       "N","O","P","Q","R","S","T","U","V","W","X","Y","Z",
       "a","b","c","d","e","f","g","h","i","j","k","l","m",
       "n","o","p","q","r","s","t","u","v","w","x","y","z",
       "0","1","2","3","4","5","6","7","8","9","+","/" >>

B64Index(ch) == CHOOSE i \in DOMAIN B64Chars : B64Chars[i] = ch

\* ord(ch) for the characters the model uses.
Ord(ch) ==
    IF \E i \in DOMAIN B64Chars : B64Chars[i] = ch
    THEN LET i == B64Index(ch) - 1
         IN  IF i < 26 THEN 65 + i
             ELSE IF i < 52 THEN 97 + (i - 26)
             ELSE IF i < 62 THEN 48 + (i - 52)
             ELSE IF i = 62 THEN 43 ELSE 47
    ELSE CASE ch = "\n" -> 10
           [] ch = " "  -> 32
           [] ch = "!"  -> 33
           [] ch = "\""  -> 34
           [] ch = "."  -> 46
           [] ch = "="  -> 61
           [] ch = "_"  -> 95

Whitespace == {" ", "\n"}

\* \w of the regular expression: letters, digits and the underscore.
WordChars == (Range(B64Chars) \ {"+", "/"}) \cup {"_"}

\* The character class [\w +/].
SafeChars == WordChars \cup {" ", "+", "/"}

\* isSafe = re.compile(r'[\w +/]*$').match: the longest run of safe
\* characters from the start must reach the end of the string, or the
\* newline that ends it ($ also matches before a final newline).
isSafe(string) ==
    \/ \A i \in DOMAIN string : string[i] \in SafeChars
    \/ /\ Len(string) > 0
       /\ string[Len(string)] = "\n"
       /\ \A i \in 1..(Len(string) - 1) : string[i] \in SafeChars

\* The k-th (1..4) 6-bit group of the 24-bit number n, as its base64 character.
Sextet(n, k) ==
    LET shift == IF k = 1 THEN 262144 ELSE IF k = 2 THEN 4096
                 ELSE IF k = 3 THEN 64 ELSE 1
    IN  B64Chars[((n \div shift) % 64) + 1]

\* Base64 of a byte string: 3 bytes give 4 characters, and a last group of
\* 1 or 2 bytes is padded with "==" or "=".
RECURSIVE b64encode(_)
b64encode(string) ==
    IF Len(string) = 0 THEN <<>>
    ELSE IF Len(string) = 1 THEN
        LET n == Ord(string[1]) * 65536
        IN  <<Sextet(n, 1), Sextet(n, 2), "=", "=">>
    ELSE IF Len(string) = 2 THEN
        LET n == Ord(string[1]) * 65536 + Ord(string[2]) * 256
        IN  <<Sextet(n, 1), Sextet(n, 2), Sextet(n, 3), "=">>
    ELSE
        LET n == Ord(string[1]) * 65536 + Ord(string[2]) * 256 + Ord(string[3])
        IN  <<Sextet(n, 1), Sextet(n, 2), Sextet(n, 3), Sextet(n, 4)>>
            \o b64encode(SubSeq(string, 4, Len(string)))

\* string.encode('base64'): the base64 text followed by a newline (strings of
\* at most 57 bytes fill one line; the empty string encodes to nothing).
EncodeBase64(string) ==
    IF Len(string) = 0 THEN <<>> ELSE b64encode(string) \o <<"\n">>

\* ''.join(text.split()): text without its whitespace.
JoinSplit(text) == SelectSeq(text, LAMBDA ch : ch \notin Whitespace)

toSafe(string) ==
    IF ~isSafe(string) THEN JoinSplit(EncodeBase64(string)) ELSE string

\* The characters item string forms are drawn from when the encoding is
\* explored: one the pattern refuses and two base64 characters.
IdAlphabet == {"\"", "I", "i"}

\* The strings of at most n characters of S.
Strings(S, n) == UNION {[1..k -> S] : k \in 0..n}

-----------------------------------------------------------------------------
(* The rows, the formatters and the column *)

Items == {"item1", "item2", "item3"}

\* str(item) of the three rows: the specification's two examples and the
\* base64 text of the second one.
ItemStr ==
    [item \in Items |->
        CASE item = "item1" -> <<"a", "=", "b">>
          [] item = "item2" -> <<"Y", "T", "1", "i">>
          [] item = "item3" -> <<"h", "e", "l", "l", "o", " ", "w", "o", "r", "l", "d">>]

\* toSafe as one string, tabulated once over the string forms the model
\* uses.
safeId == [string \in Strings(IdAlphabet, MaxLen) \cup Range(ItemStr) |->
              Join(toSafe(string))]

\* BaseColumn.getId: toSafe(str(item)).
getId(item) == safeId[str[item]]

\* The values a field holds: None, a falsy string and a truthy one.
Values == {None, "", "x"}

Formatters == {"f1", "f2"}

\* formatter.prefix: one formatter without a prefix and one with.
FormatterPrefix == [f \in Formatters |-> IF f = "f1" THEN "" ELSE "t"]

\* A FieldColumn as FieldColumn.__init__ leaves it: the form field with its
\* schema field's name, and title and name taken from the field.
FieldColumnInit(for_display) ==
    [module |-> "zc.table.fieldcolumn", class |-> "FieldColumn",
     name |-> "a", title |-> "A",
     field |-> [name |-> "a", for_display |-> for_display, prefix |-> ""]]

\* A SubmitColumn named "go".
SubmitColumnInit ==
    [module |-> "zc.table.fieldcolumn", class |-> "SubmitColumn",
     name |-> "go", title |-> "Go"]

\* BaseColumn.getPrefix
getPrefix(item, f) ==
    LET prefix == getId(item)
    IN  IF FormatterPrefix[f] # "" THEN FormatterPrefix[f] \o "." \o prefix
        ELSE prefix

\* BaseColumn.key
key(col) == col.module \o "." \o col.class \o "." \o col.name

\* A variant of setAnnotation that keeps the annotation in one mapping shared
\* by all formatters, as an attribute of the column would be.
setAnnotationShared(col, name, v, f) ==
    [g \in DOMAIN annotations |-> MapSet(annotations[g], key(col) \o name, v)]

\* BaseColumn.setAnnotation: the annotations of all formatters after the call.
setAnnotation(col, name, v, f) ==
    [annotations EXCEPT ![f] = MapSet(@, key(col) \o name, v)]

\* BaseColumn.getAnnotation
getAnnotation(col, name, f, default) ==
    MapGet(annotations[f], key(col) \o name, default)

-----------------------------------------------------------------------------
(* The widget the form framework hands back *)

\* What the user can have typed into one input: nothing (the field's missing
\* value), a valid text, a text the field refuses.
RawInputs == {"", "x", "!"}

\* widget.setPrefix(prefix): the widget's name is the prefix, a dot and the
\* field's name.
setPrefix(widget, prefix) == [widget EXCEPT !.name = prefix \o "." \o widget.field]

\* FieldColumn.getInputWidget: a fresh widget for the item, display-only when
\* the form field is for display.
getInputWidget(item, f) ==
    LET form_field == column.field
        prefix == getPrefix(item, f)
        widget == [field |-> form_field.name, name |-> "",
                   display |-> form_field.for_display,
                   renderedValueSet |-> FALSE, renderedValue |-> None]
    IN  setPrefix(widget,
                  IF form_field.prefix # "" THEN prefix \o "." \o form_field.prefix
                  ELSE prefix)

\* widget.hasInput(): the request's form has an entry of the widget's name.
hasInput(widget, f) == widget.name \in DOMAIN form[f]

\* Whether widget.getInputValue() raises WidgetInputError.
inputFails(widget, f) == form[f][widget.name] = "!"

\* The WidgetInputError the widget raises: it tells the widget and the input.
WidgetInputError(widget, f) == [widget |-> widget.name, input |-> form[f][widget.name]]

\* widget.getInputValue(): the submitted text converted to the field's value;
\* an empty input is the field's missing value, None.
getInputValue(widget, f) ==
    LET raw == form[f][widget.name] IN IF raw = "" THEN None ELSE raw

\* widget.setRenderedValue(value)
setRenderedValue(widget, v) ==
    [widget EXCEPT !.renderedValueSet = TRUE, !.renderedValue = v]

\* widget(): the markup shows the rendered value when one was set, and else
\* what the request submitted.
renderWidget(widget, f) ==
    IF widget.renderedValueSet
    THEN [from |-> "field", text |-> widget.renderedValue]
    ELSE [from |-> "request", text |-> MapGet(form[f], widget.name, "")]

-----------------------------------------------------------------------------
(* FieldColumn *)

\* FieldColumn.get, on the field values vals.
get(vals, item) == vals[item]

\* FieldColumn.set
set(vals, item, v) == [vals EXCEPT ![item] = v]

\* A variant of getRenderWidget that leaves out the display-widget test.
getRenderWidgetNoDisplayTest(item, f, ignore_request) ==
    Strict(getInputWidget(item, f),
           LAMBDA widget :
               IF Truthy(ignore_request) \/ ~hasInput(widget, f)
               THEN setRenderedValue(widget, get(value, item))
               ELSE widget)

\* FieldColumn.getRenderWidget
getRenderWidget(item, f, ignore_request) ==
    Strict(getInputWidget(item, f),
           LAMBDA widget :
               IF Truthy(ignore_request) \/ widget.display \/ ~hasInput(widget, f)
               THEN setRenderedValue(widget, get(value, item))
               ELSE widget)

\* The loop of FieldColumn.input from the i-th item on; acc holds data, errors
\* and the items visited so far.
RECURSIVE inputLoop(_, _, _, _)
inputLoop(items, f, i, acc) ==
    IF i > Len(items) THEN acc
    ELSE
        LET item == items[i]
            widget == getInputWidget(item, f)
            seen == [acc EXCEPT !.visited = Append(@, item)]
        IN  Strict(IF hasInput(widget, f)
                   THEN IF inputFails(widget, f)
                        THEN [seen EXCEPT !.errors =
                                  Append(@, WidgetInputError(widget, f))]
                        ELSE [seen EXCEPT !.data =
                                  MapSet(@, getId(item), getInputValue(widget, f))]
                   ELSE seen,
                   LAMBDA next : inputLoop(items, f, i + 1, next))

\* A variant of input that raises at the first failure (fail-fast): it
\* visits the items up to the first failing one only.
RECURSIVE inputFailFastLoop(_, _, _, _)
inputFailFastLoop(items, f, i, acc) ==
    IF i > Len(items) \/ acc.errors # <<>> THEN acc
    ELSE
        LET item == items[i]
            widget == getInputWidget(item, f)
            seen == [acc EXCEPT !.visited = Append(@, item)]
        IN  Strict(IF hasInput(widget, f)
                   THEN IF inputFails(widget, f)
                        THEN [seen EXCEPT !.errors =
                                  Append(@, WidgetInputError(widget, f))]
                        ELSE [seen EXCEPT !.data =
                                  MapSet(@, getId(item), getInputValue(widget, f))]
                   ELSE seen,
                   LAMBDA next : inputFailFastLoop(items, f, i + 1, next))

FieldColumn_inputFailFast(items, f) ==
    Strict(inputFailFastLoop(items, f, 1,
                             [data |-> EmptyMap, errors |-> <<>>, visited |-> <<>>]),
           LAMBDA r :
               IF r.errors # <<>>
               THEN [raised |-> "WidgetsError", errors |-> r.errors,
                     returned |-> None, visited |-> r.visited,
                     value |-> value, annotations |-> annotations]
               ELSE [raised |-> None, errors |-> <<>>,
                     returned |-> r.data, visited |-> r.visited,
                     value |-> value, annotations |-> annotations])

\* A variant of input that does not ask hasInput(): an item without input
\* gets an entry holding None.
RECURSIVE inputNoHasInputLoop(_, _, _, _)
inputNoHasInputLoop(items, f, i, acc) ==
    IF i > Len(items) THEN acc
    ELSE
        LET item == items[i]
            widget == getInputWidget(item, f)
            seen == [acc EXCEPT !.visited = Append(@, item)]
        IN  Strict(IF ~hasInput(widget, f)
                   THEN [seen EXCEPT !.data = MapSet(@, getId(item), None)]
                   ELSE IF inputFails(widget, f)
                        THEN [seen EXCEPT !.errors =
                                  Append(@, WidgetInputError(widget, f))]
                        ELSE [seen EXCEPT !.data =
                                  MapSet(@, getId(item), getInputValue(widget, f))],
                   LAMBDA next : inputNoHasInputLoop(items, f, i + 1, next))

FieldColumn_inputNoHasInput(items, f) ==
    Strict(inputNoHasInputLoop(items, f, 1,
                               [data |-> EmptyMap, errors |-> <<>>, visited |-> <<>>]),
           LAMBDA r :
               IF r.errors # <<>>
               THEN [raised |-> "WidgetsError", errors |-> r.errors,
                     returned |-> None, visited |-> r.visited,
                     value |-> value, annotations |-> annotations]
               ELSE [raised |-> None, errors |-> <<>>,
                     returned |-> r.data, visited |-> r.visited,
                     value |-> value, annotations |-> annotations])

\* FieldColumn.input: what the call raised or returned, the items it visited,
\* and the field values and annotations it leaves.
FieldColumn_input(items, f) ==
    Strict(inputLoop(items, f, 1,
                     [data |-> EmptyMap, errors |-> <<>>, visited |-> <<>>]),
           LAMBDA r :
               IF r.errors # <<>>
               THEN [raised |-> "WidgetsError", errors |-> r.errors,
                     returned |-> None, visited |-> r.visited,
                     value |-> value, annotations |-> annotations]
               ELSE [raised |-> None, errors |-> <<>>,
                     returned |-> r.data, visited |-> r.visited,
                     value |-> value, annotations |-> annotations])

\* The column object, which update() uses as its "no entry" marker.
Self == "<FieldColumn>"

\* The loop of FieldColumn.update from the i-th item on; acc holds the field
\* values, the items set() was applied to, and changed.
RECURSIVE updateLoop(_, _, _, _, _)
updateLoop(items, data, f, i, acc) ==
    IF i > Len(items) THEN acc
    ELSE
        LET item == items[i]
            id == getId(item)
            v == MapGet(data, id, Self)
        IN  Strict(IF v # Self /\ get(acc.value, item) # v
                   THEN [value |-> set(acc.value, item, v),
                         applied |-> Append(acc.applied, item),
                         changed |-> True]
                   ELSE acc,
                   LAMBDA next : updateLoop(items, data, f, i + 1, next))

\* A variant of update that takes None for "no entry" (data.get(id) and
\* "v is not None"), so a supplied None is not applied.
RECURSIVE updateNoneMarkerLoop(_, _, _, _, _)
updateNoneMarkerLoop(items, data, f, i, acc) ==
    IF i > Len(items) THEN acc
    ELSE
        LET item == items[i]
            id == getId(item)
            v == MapGet(data, id, None)
        IN  Strict(IF v # None /\ get(acc.value, item) # v
                   THEN [value |-> set(acc.value, item, v),
                         applied |-> Append(acc.applied, item),
                         changed |-> True]
                   ELSE acc,
                   LAMBDA next : updateNoneMarkerLoop(items, data, f, i + 1, next))

FieldColumn_updateNoneMarker(items, data, f) ==
    Strict(updateNoneMarkerLoop(items, data, f, 1,
                                [value |-> value, applied |-> <<>>, changed |-> False]),
           LAMBDA r :
               [returned |-> r.changed, applied |-> r.applied, value |-> r.value,
                annotations |-> IF Truthy(r.changed)
                                THEN setAnnotation(column, "changed", r.changed, f)
                                ELSE annotations])

\* A variant of update that records the annotation whether or not an item
\* changed.
FieldColumn_updateAlwaysAnnotates(items, data, f) ==
    Strict(updateLoop(items, data, f, 1,
                      [value |-> value, applied |-> <<>>, changed |-> False]),
           LAMBDA r :
               [returned |-> r.changed, applied |-> r.applied, value |-> r.value,
                annotations |-> setAnnotation(column, "changed", r.changed, f)])

\* FieldColumn.update: the value returned, the items set() was applied to,
\* and the field values and annotations the call leaves.
FieldColumn_update(items, data, f) ==
    Strict(updateLoop(items, data, f, 1,
                      [value |-> value, applied |-> <<>>, changed |-> False]),
           LAMBDA r :
               [returned |-> r.changed, applied |-> r.applied, value |-> r.value,
                annotations |-> IF Truthy(r.changed)
                                THEN setAnnotation(column, "changed", r.changed, f)
                                ELSE annotations])

\* A variant of renderCell that does not read the "changed" annotation.
FieldColumn_renderCellNoAnnotation(item, f) ==
    Strict(getRenderWidget(item, f, False),
           LAMBDA widget :
               [ignore_request |-> False, widget |-> widget,
                cell |-> renderWidget(widget, f)])

\* FieldColumn.renderCell: the widget rendered and its markup.
FieldColumn_renderCell(item, f) ==
    LET ignore_request == getAnnotation(column, "changed", f, None)
    IN  Strict(getRenderWidget(item, f, ignore_request),
               LAMBDA widget :
                   [ignore_request |-> ignore_request, widget |-> widget,
                    cell |-> renderWidget(widget, f)])

-----------------------------------------------------------------------------
(* The calls a table makes on the shared FieldColumn *)

PartialMaps(K, V) == UNION {[D -> V] : D \in SUBSET K}

\* The rows of the table and the formatters (one per request) that are live.
Rows == DOMAIN value
Live == DOMAIN form

RowIds == {getId(item) : item \in Rows}

\* The request forms a formatter can hold: any inputs for the widgets of the
\* table's rows.
Forms(f) == PartialMaps({getInputWidget(item, f).name : item \in Rows}, RawInputs)

\* The requests of the formatters fs, one form each.
Requests(fs) ==
    {fm \in [fs -> UNION {Forms(f) : f \in fs}] : \A f \in fs : fm[f] \in Forms(f)}

\* column.input(items, formatter)
Input ==
    /\ last.op = "idle"
    /\ \E f \in Live, items \in Batches(Rows, MaxBatch) :
         \E r \in {FieldColumn_input(items, f)} :
           /\ value' = r.value
           /\ annotations' = r.annotations
           /\ last' = [op |-> "input", f |-> f, items |-> items, raised |-> r.raised,
                       errors |-> r.errors, returned |-> r.returned,
                       visited |-> r.visited]
    /\ UNCHANGED <<str, form, column, updated>>

\* column.update(items, data, formatter)
Update ==
    /\ last.op = "idle"
    /\ \E f \in Live, items \in Batches(Rows, MaxBatch),
          data \in PartialMaps(RowIds, Values) :
         \E r \in {FieldColumn_update(items, data, f)} :
           /\ value' = r.value
           /\ annotations' = r.annotations
           /\ updated' = IF r.applied # <<>> THEN updated \cup {f} ELSE updated
           /\ last' = [op |-> "update", f |-> f, items |-> items, data |-> data,
                       returned |-> r.returned, applied |-> r.applied]
    /\ UNCHANGED <<str, form, column>>

\* column.renderCell(item, formatter)
RenderCell ==
    /\ last.op = "idle"
    /\ \E f \in Live, item \in Rows :
         \E r \in {FieldColumn_renderCell(item, f)} :
           last' = [op |-> "renderCell", f |-> f, item |-> item,
                    ignore_request |-> r.ignore_request, widget |-> r.widget,
                    cell |-> r.cell]
    /\ UNCHANGED <<str, value, form, annotations, column, updated>>

\* column.getRenderWidget(item, formatter, ignore_request), the helper a
\* subclass calls with a flag of its own.
GetRenderWidget ==
    /\ last.op = "idle"
    /\ \E f \in Live, item \in Rows, ignore_request \in {True, False} :
         last' = [op |-> "getRenderWidget", f |-> f, item |-> item,
                  ignore_request |-> ignore_request,
                  widget |-> getRenderWidget(item, f, ignore_request)]
    /\ UNCHANGED <<str, value, form, annotations, column, updated>>

\* The call returns: its caller has taken what "last" holds.  Calls are made
\* one at a time, in any order and for any formatter.
Return ==
    /\ last.op # "idle"
    /\ last' = [op |-> "idle"]
    /\ UNCHANGED <<str, value, form, annotations, column, updated>>

Next == Input \/ Update \/ RenderCell \/ GetRenderWidget \/ Return

\* One request: a table of three rows, two of which have the same id, a
\* column for input or for display, and any submitted form.
Init ==
    /\ str = ItemStr
    /\ value \in [Items -> Values]
    /\ column \in {FieldColumnInit(d) : d \in BOOLEAN}
    /\ form \in Requests({"f1"})
    /\ annotations = [f \in Live |-> EmptyMap]
    /\ updated = {}
    /\ last = [op |-> "idle"]

Spec == Init /\ [][Next]_vars

\* Two concurrent requests on the one column, for a table of one row.
InitShared ==
    /\ str = ItemStr
    /\ value \in [{"item1"} -> Values]
    /\ column \in {FieldColumnInit(d) : d \in BOOLEAN}
    /\ form \in Requests(Formatters)
    /\ annotations = [f \in Live |-> EmptyMap]
    /\ updated = {}
    /\ last = [op |-> "idle"]

SpecShared == InitShared /\ [][Next]_vars

-----------------------------------------------------------------------------
(* SubmitColumn *)

\* SubmitColumn.getIdentifier
getIdentifier(item, f) == getPrefix(item, f) \o "." \o column.name

\* The loop of SubmitColumn.input from the i-th item on: the first item whose
\* identifier is in the form, and None when the loop ends without one.
RECURSIVE submitLoop(_, _, _)
submitLoop(items, f, i) ==
    IF i > Len(items) THEN None
    ELSE IF getIdentifier(items[i], f) \in DOMAIN form[f] THEN items[i]
    ELSE submitLoop(items, f, i + 1)

\* A variant of SubmitColumn.input that keeps looking after a match and
\* returns the last matching item.
RECURSIVE submitLastLoop(_, _, _)
submitLastLoop(items, f, i) ==
    IF i < 1 THEN None
    ELSE IF getIdentifier(items[i], f) \in DOMAIN form[f] THEN items[i]
    ELSE submitLastLoop(items, f, i - 1)

SubmitColumn_inputLastMatch(items, f) == submitLastLoop(items, f, Len(items))

\* SubmitColumn.input
SubmitColumn_input(items, f) == submitLoop(items, f, 1)

\* column.input(items, formatter) on the submit column
SubmitInput ==
    /\ last.op = "idle"
    /\ \E f \in Live, items \in Batches(Rows, MaxBatch) :
         last' = [op |-> "SubmitColumn.input", f |-> f, items |-> items,
                  returned |-> SubmitColumn_input(items, f)]
    /\ UNCHANGED <<str, value, form, annotations, column, updated>>

NextSubmit == SubmitInput \/ Return

\* The label a pressed submit button sends.
SubmitLabels == {"Go"}

\* The forms in which any of the rows' submit buttons are present.
SubmitRequests(fs) ==
    {fm \in [fs -> PartialMaps({getIdentifier(item, f) : item \in Rows, f \in fs},
                               SubmitLabels)] :
        \A f \in fs : DOMAIN fm[f] \subseteq {getIdentifier(item, f) : item \in Rows}}

\* Two requests on a table of three rows with a SubmitColumn.
InitSubmit ==
    /\ str = ItemStr
    /\ value = [item \in Items |-> None]
    /\ column = SubmitColumnInit
    /\ form \in SubmitRequests(Formatters)
    /\ annotations = [f \in Live |-> EmptyMap]
    /\ updated = {}
    /\ last = [op |-> "idle"]

SpecSubmit == InitSubmit /\ [][NextSubmit]_vars

-----------------------------------------------------------------------------
(* The id encoding on its own *)

\* column.getId(item, formatter); "last" keeps the ids handed out so far.
GetId ==
    /\ \E item \in DOMAIN str :
         last' = [op |-> "getId", item |-> item,
                  ids |-> MapSet(last.ids, item, getId(item))]
    /\ UNCHANGED <<str, value, form, annotations, column, updated>>

NextSafe == GetId

\* Two rows with any string forms of at most MaxLen characters.
InitSafe ==
    /\ str \in [{"item1", "item2"} -> Strings(IdAlphabet, MaxLen)]
    /\ value = [item \in DOMAIN str |-> None]
    /\ column = FieldColumnInit(FALSE)
    /\ form = [f \in {"f1"} |-> EmptyMap]
    /\ annotations = [f \in Live |-> EmptyMap]
    /\ updated = {}
    /\ last = [op |-> "idle", ids |-> EmptyMap]

SpecSafe == InitSafe /\ [][NextSafe]_vars

-----------------------------------------------------------------------------
(* Annotations of several columns on one formatter *)

\* Columns of one table: two FieldColumns named "x" and "xy" and a
\* SubmitColumn named "x".
AnnColumns ==
    {[module |-> "zc.table.fieldcolumn", class |-> "FieldColumn", name |-> "x"],
     [module |-> "zc.table.fieldcolumn", class |-> "FieldColumn", name |-> "xy"],
     [module |-> "zc.table.fieldcolumn", class |-> "SubmitColumn", name |-> "x"]}

\* The annotation FieldColumn.update records and one a subclass records.
AnnNames == {"changed", "ychanged"}

AnnValues == {True, False}

\* col.setAnnotation(name, value, formatter)
SetAnnotation ==
    /\ last.op = "idle"
    /\ \E col \in AnnColumns, name \in AnnNames, v \in AnnValues, f \in Live :
         /\ annotations' = setAnnotation(col, name, v, f)
         /\ last' = [op |-> "setAnnotation", col |-> col, name |-> name,
                     value |-> v, f |-> f]
    /\ UNCHANGED <<str, value, form, column, updated>>

\* col.getAnnotation(name, formatter)
GetAnnotation ==
    /\ last.op = "idle"
    /\ \E col \in AnnColumns, name \in AnnNames, f \in Live :
         last' = [op |-> "getAnnotation", col |-> col, name |-> name, f |-> f,
                  returned |-> getAnnotation(col, name, f, None)]
    /\ UNCHANGED <<str, value, form, annotations, column, updated>>

NextAnn == SetAnnotation \/ GetAnnotation \/ Return

InitAnn ==
    /\ str = ItemStr
    /\ value = [item \in Items |-> None]
    /\ column = FieldColumnInit(FALSE)
    /\ form = [f \in {"f1"} |-> EmptyMap]
    /\ annotations = [f \in Live |-> EmptyMap]
    /\ updated = {}
    /\ last = [op |-> "idle"]

SpecAnn == InitAnn /\ [][NextAnn]_vars

-----------------------------------------------------------------------------
(* What the calls are to guarantee *)

\* The item's widget reports submitted input on formatter f.
Submitted(item, f) == hasInput(getInputWidget(item, f), f)

\* The item's submitted input fails value extraction.
Failing(item, f) == Submitted(item, f) /\ inputFails(getInputWidget(item, f), f)

\* The key under which the column's "changed" flag is kept.
ChangedKey == key(column) \o "changed"

\* The ids of the items of a batch are pairwise distinct.
DistinctIds(items) ==
    \A i, j \in DOMAIN items : i # j => getId(items[i]) # getId(items[j])

\* C1: when some item of the batch has submitted input that fails extraction,
\* FieldColumn.input visits every item, raises one WidgetsError holding the
\* failures of exactly the failing items in item order, returns no mapping,
\* and changes no field value and no annotation.
C1_InputFailsTogether ==
    [][(/\ last'.op = "input"
        /\ \E i \in DOMAIN last'.items : Failing(last'.items[i], last'.f))
       => LET f == last'.f
              items == last'.items
              failing == SelectSeq(items, LAMBDA item : Failing(item, f))
          IN  /\ last'.visited = items
              /\ last'.raised = "WidgetsError"
              /\ last'.errors =
                     [k \in 1..Len(failing) |->
                         WidgetInputError(getInputWidget(failing[k], f), f)]
              /\ last'.returned = None
              /\ value' = value
              /\ annotations' = annotations]_vars

\* C1's case: a batch of two in which the first item fails and the second has
\* valid input, which the raised error discards.
C1_Witness ==
    /\ last.op = "input"
    /\ last.raised = "WidgetsError"
    /\ Len(last.items) = 2
    /\ Len(last.errors) = 1
    /\ Failing(last.items[1], last.f)
    /\ Submitted(last.items[2], last.f)
    /\ ~Failing(last.items[2], last.f)

\* C5: when FieldColumn.input raises nothing and the items' ids are pairwise
\* distinct, the mapping returned holds exactly the ids of the items with
\* submitted input, each with the item's extracted value; an item without
\* input has no entry.
C5_InputMapping ==
    (last.op = "input" /\ last.raised = None /\ DistinctIds(last.items))
    => LET f == last.f
           withInput == {item \in Range(last.items) : Submitted(item, f)}
       IN  /\ DOMAIN last.returned = {getId(item) : item \in withInput}
           /\ \A item \in withInput :
                  last.returned[getId(item)] =
                      getInputValue(getInputWidget(item, f), f)

\* C5's case: two items of distinct ids, one whose input extracts to None (an
\* entry holding None) and one without input (no entry).
C5_Witness ==
    /\ last.op = "input"
    /\ last.raised = None
    /\ Len(last.items) = 2
    /\ DistinctIds(last.items)
    /\ Submitted(last.items[1], last.f)
    /\ last.returned[getId(last.items[1])] = None
    /\ ~Submitted(last.items[2], last.f)

\* C2: FieldColumn.update applies set() to exactly the items of the batch
\* whose id is a key of data and whose field value differs from data[id];
\* afterwards each of them holds data[id], None and falsy values included, and
\* every other item keeps its value.
C2_UpdateChangesExactly ==
    [][last'.op = "update"
       => LET items == last'.items
              data == last'.data
              due(item) == /\ item \in Range(items)
                           /\ getId(item) \in DOMAIN data
                           /\ value[item] # data[getId(item)]
          IN  \A item \in Rows :
                  IF due(item)
                  THEN /\ item \in Range(last'.applied)
                       /\ value'[item] = data[getId(item)]
                  ELSE /\ item \notin Range(last'.applied)
                       /\ value'[item] = value[item]]_vars

\* C2's case: a batch of two in which one item was given None and now holds
\* it, and the other, whose id data does not hold, was left alone.
C2_Witness ==
    /\ last.op = "update"
    /\ Len(last.items) = 2
    /\ \E i, j \in DOMAIN last.items :
           /\ last.items[i] \in Range(last.applied)
           /\ last.data[getId(last.items[i])] = None
           /\ value[last.items[i]] = None
           /\ getId(last.items[j]) \notin DOMAIN last.data
           /\ last.items[j] \notin Range(last.applied)

\* C4: FieldColumn.update returns True exactly when it applied set() to some
\* item, and then writes the column's "changed" annotation, with True, on the
\* formatter; when it returns False no field changes and the formatter's
\* annotations stay as they were.
C4_UpdateReturnsChanged ==
    [][last'.op = "update"
       => /\ last'.returned \in {True, False}
          /\ (last'.returned = True) <=> (last'.applied # <<>>)
          /\ last'.returned = True
             => annotations' =
                    [annotations EXCEPT ![last'.f] = MapSet(@, ChangedKey, True)]
          /\ last'.returned = False
             => /\ value' = value
                /\ annotations' = annotations]_vars

\* C4's case: update with data = {} on two items returns False on a formatter
\* that holds the flag of an earlier update, and the flag is still there.
C4_Witness ==
    /\ last.op = "update"
    /\ last.data = EmptyMap
    /\ Len(last.items) = 2
    /\ last.returned = False
    /\ MapGet(annotations[last.f], ChangedKey, None) = True

\* C3: once an update() on a formatter has changed an item, renderCell on
\* that formatter renders, for every item, the value stored in the item's
\* field and not the submitted input.
C3_RenderAfterUpdate ==
    (last.op = "renderCell" /\ last.f \in updated)
    => last.cell = [from |-> "field", text |-> value[last.item]]

\* C3's case: after an update on the formatter, an input widget whose request
\* holds input that differs from the stored value is rendered.
C3_Witness ==
    /\ last.op = "renderCell"
    /\ last.f \in updated
    /\ ~column.field.for_display
    /\ Submitted(last.item, last.f)
    /\ form[last.f][last.widget.name] # value[last.item]

\* C9: without a "changed" annotation, renderCell sets the widget's rendered
\* value to the field value exactly when the widget is display-only or has no
\* submitted input, and otherwise the cell shows the submitted input;
\* getRenderWidget with ignore_request true always sets the field value.
C9_RenderWidget ==
    LET shown(item, f) == column.field.for_display \/ ~Submitted(item, f)
        asCode(item, f, widget) ==
            /\ widget.renderedValueSet <=> shown(item, f)
            /\ widget.renderedValueSet => widget.renderedValue = value[item]
    IN  /\ (last.op = "renderCell" /\ ChangedKey \notin DOMAIN annotations[last.f])
           => /\ asCode(last.item, last.f, last.widget)
              /\ last.cell =
                     IF shown(last.item, last.f)
                     THEN [from |-> "field", text |-> value[last.item]]
                     ELSE [from |-> "request",
                           text |-> form[last.f][last.widget.name]]
        /\ (last.op = "getRenderWidget" /\ last.ignore_request = False)
           => asCode(last.item, last.f, last.widget)
        /\ (last.op = "getRenderWidget" /\ last.ignore_request = True)
           => /\ last.widget.renderedValueSet
              /\ last.widget.renderedValue = value[last.item]

\* C9's case: no annotation, an input widget with invalid submitted input:
\* the cell shows the input.
C9_Witness ==
    /\ last.op = "renderCell"
    /\ ChangedKey \notin DOMAIN annotations[last.f]
    /\ ~column.field.for_display
    /\ Failing(last.item, last.f)
    /\ last.cell = [from |-> "request", text |-> "!"]

\* C8: with one column shared by several formatters, a formatter's
\* annotations change only by an update made on that formatter that changed an
\* item, renderCell on a formatter ignores the request only after such an
\* update on the same formatter, and the column's attributes are never written.
C8_NoSharedState ==
    [][/\ \A g \in Live :
              annotations'[g] # annotations[g]
              => (last'.op = "update" /\ last'.f = g /\ last'.returned = True)
       /\ (last'.op = "renderCell" /\ Truthy(last'.ignore_request))
          => last'.f \in updated
       /\ column' = column]_vars

\* C8's case: one formatter has recorded a change, and renderCell on the
\* other formatter still shows that formatter's submitted input.
C8_Witness ==
    /\ last.op = "renderCell"
    /\ updated # {}
    /\ last.f \notin updated
    /\ ChangedKey \notin DOMAIN annotations[last.f]
    /\ last.cell.from = "request"

\* C6: SubmitColumn.input returns the first item of the batch whose identifier
\* is a key of the request's form, and None when there is none; it changes
\* neither the form, the items nor the annotations.
C6_SubmitFirstMatch ==
    [][last'.op = "SubmitColumn.input"
       => LET f == last'.f
              items == last'.items
              hits == {i \in DOMAIN items : getIdentifier(items[i], f) \in DOMAIN form[f]}
          IN  /\ hits = {} => last'.returned = None
              /\ hits # {} => \E i \in hits : /\ \A j \in hits : i <= j
                                              /\ last'.returned = items[i]
              /\ form' = form
              /\ value' = value
              /\ str' = str
              /\ annotations' = annotations]_vars

\* C6's case: the identifiers of both items of the batch are in the form, they
\* differ, and the first item is returned.
C6_Witness ==
    /\ last.op = "SubmitColumn.input"
    /\ Len(last.items) = 2
    /\ getIdentifier(last.items[1], last.f) # getIdentifier(last.items[2], last.f)
    /\ \A i \in DOMAIN last.items : getIdentifier(last.items[i], last.f) \in DOMAIN form[last.f]
    /\ last.returned = last.items[1]

\* C7: items whose string forms differ get different ids from getId.
C7_IdsDistinct ==
    last.op = "getId"
    => \A i, j \in DOMAIN last.ids :
           str[i] # str[j] => last.ids[i] # last.ids[j]

\* C10: setAnnotation on one column never changes what getAnnotation returns,
\* for any annotation name, for a column that differs from it in class or in
\* name.
C10_KeysDoNotCollide ==
    [][\A f \in Live, other \in AnnColumns, name \in AnnNames :
           (/\ last'.op = "setAnnotation"
            /\ last'.f = f
            /\ <<other.module, other.class, other.name>>
                   # <<last'.col.module, last'.col.class, last'.col.name>>)
           => getAnnotation(other, name, f, None)'
                  = getAnnotation(other, name, f, None)]_vars

====
